---- MODULE Spec2Model ----
(***************************************************************************)
(* hex-thing: a hex dump tool (src/src/main.rs, byte_range.rs, util.rs).   *)
(*                                                                         *)
(* Text is modelled as a sequence of tokens.  A token is a one-character   *)
(* string, or the name of a character TLA+ strings cannot hold:            *)
(*   "U+2502" the separator, "U+2022" "U+21E5" "U+240A" "U+240D" "U+2423"  *)
(*   "U+00D7" "U+25B4" the glyphs of get_ascii, "U+0022" "U+005C" "U+0060"  *)
(*   the quote, backslash and backtick, and "ESC[<n>m" the ANSI            *)
(*   escape sequences the colored crate wraps a string in.                 *)
(* A binary file is a sequence of bytes (0..255); a text file is a         *)
(* sequence of lines, each a sequence of tokens (the "\n" ending a line is *)
(* the line boundary).                                                     *)
(***************************************************************************)
EXTENDS Integers, Sequences, FiniteSets, TLC

\* ------------------------------------------------------------------ bounds
MaxFileLen == 3      \* longest binary input file
MaxBpl == 2          \* largest --bytes-per-line
MaxSkip == 2         \* largest --skip and largest range start
MaxCount == 2        \* largest --length
MaxRangeEnd == 3     \* largest range end
MaxLines == 2        \* most lines of a reverse-mode input file
MaxFields == 4       \* most separator-delimited fields of a reverse-mode line
MaxPrefix == 2       \* most "0x" prefixes of a range literal
MaxBody == 2         \* most characters after the prefixes of a range literal

\* The bytes input files are made of: 0x0a (whitespace), 0x41 (printable, and
\* its glyph "A" is itself a hex digit), 0xab (high byte, hex letters).
ByteSet == {10, 65, 171}

\* usize arithmetic wraps modulo 2^64 in a release build; TLC's integers are
\* 32 bits wide, so the model wraps modulo 2^30.
UsizeModulus == 2^30

None == [some |-> FALSE, val |-> 0]
Some(v) == [some |-> TRUE, val |-> v]

RECURSIVE Concat(_)
Concat(ss) == IF ss = <<>> THEN <<>> ELSE Head(ss) \o Concat(Tail(ss))

RECURSIVE Join(_, _)
Join(ss, sep) ==
    IF ss = <<>> THEN <<>>
    ELSE IF Len(ss) = 1 THEN ss[1]
    ELSE ss[1] \o sep \o Join(Tail(ss), sep)

Repeat(tok, n) == [i \in 1..n |-> tok]

SeqsUpTo(S, n) == UNION {[1..k -> S] : k \in 0..n}

\* ---------------------------------------------------------------- statics
\* main.rs:59  RAW_SPLIT_SYMBOL
RAW_SPLIT_SYMBOL == "U+2502"

EscTokens == {"ESC[90m", "ESC[36m", "ESC[32m", "ESC[33m", "ESC[91m", "ESC[0m"}

\* colored: <str>.color(c).to_string() wraps the string in the colour's escape
\* sequence and the reset sequence.
ColorCode(color) ==
    CASE color = "BrightBlack" -> "ESC[90m"
      [] color = "Cyan" -> "ESC[36m"
      [] color = "Green" -> "ESC[32m"
      [] color = "Yellow" -> "ESC[33m"
      [] color = "BrightRed" -> "ESC[91m"

Colorize(s, color) == <<ColorCode(color)>> \o s \o <<"ESC[0m">>

\* util.rs:15-26  apply_if
ApplyIf(x, condition, fx) == IF condition THEN fx ELSE x

\* ------------------------------------------------------------- classifier
\* get_color with the 32..=126 arm before the whitespace arm.
get_color_reordered(byte) ==
    IF byte = 0 THEN "BrightBlack"
    ELSE IF byte \in 32..126 THEN "Green"
    ELSE IF byte \in {9, 10, 13, 32} THEN "Cyan"
    ELSE IF byte \in 128..255 THEN "Yellow"
    ELSE "BrightRed"

\* main.rs:80-88  get_color: the arms of the match, first match wins.
get_color(byte) ==
    IF byte = 0 THEN "BrightBlack"
    ELSE IF byte \in {9, 10, 13, 32} THEN "Cyan"
    ELSE IF byte \in 32..126 THEN "Green"
    ELSE IF byte \in 128..255 THEN "Yellow"
    ELSE "BrightRed"

\* The characters 33..126, in order (byte as char).
AsciiChars ==
    << "!", "U+0022", "#", "$", "%", "&", "'", "(", ")", "*", "+", ",", "-", ".", "/",
       "0", "1", "2", "3", "4", "5", "6", "7", "8", "9", ":", ";", "<", "=", ">", "?",
       "@", "A", "B", "C", "D", "E", "F", "G", "H", "I", "J", "K", "L", "M", "N", "O",
       "P", "Q", "R", "S", "T", "U", "V", "W", "X", "Y", "Z", "[", "U+005C", "]", "^", "_",
       "U+0060", "a", "b", "c", "d", "e", "f", "g", "h", "i", "j", "k", "l", "m", "n", "o",
       "p", "q", "r", "s", "t", "u", "v", "w", "x", "y", "z", "{", "|", "}", "~" >>

AsChar(byte) == IF byte = 32 THEN " " ELSE AsciiChars[byte - 32]

\* main.rs:90-101  get_ascii: the arms of the match, first match wins.
get_ascii(byte) ==
    IF byte = 0 THEN "U+2022"
    ELSE IF byte = 9 THEN "U+21E5"
    ELSE IF byte = 10 THEN "U+240A"
    ELSE IF byte = 13 THEN "U+240D"
    ELSE IF byte = 32 THEN "U+2423"
    ELSE IF byte \in 32..126 THEN AsChar(byte)
    ELSE IF byte \in 128..255 THEN "U+00D7"
    ELSE "U+25B4"

\* ------------------------------------------------------------------- hex
HexDigits == <<"0", "1", "2", "3", "4", "5", "6", "7",
               "8", "9", "a", "b", "c", "d", "e", "f">>
UpperDigits == <<"0", "1", "2", "3", "4", "5", "6", "7",
                 "8", "9", "A", "B", "C", "D", "E", "F">>

\* hex::encode of one byte: two lowercase digits, high nibble first.
EncodeByte(b) == <<HexDigits[(b \div 16) + 1], HexDigits[(b % 16) + 1]>>

\* str::to_uppercase on the characters a hex string holds.
ToUpperChar(c) ==
    IF \E i \in 11..16 : HexDigits[i] = c
    THEN UpperDigits[CHOOSE i \in 11..16 : HexDigits[i] = c]
    ELSE c

to_uppercase(s) == [i \in 1..Len(s) |-> ToUpperChar(s[i])]

\* The value of a hex digit of either case, -1 for any other token
\* (hex::decode's val()).
HexVal(c) ==
    IF \E i \in 1..16 : HexDigits[i] = c
    THEN (CHOOSE i \in 1..16 : HexDigits[i] = c) - 1
    ELSE IF \E i \in 11..16 : UpperDigits[i] = c
    THEN (CHOOSE i \in 11..16 : UpperDigits[i] = c) - 1
    ELSE -1

\* hex::decode: an odd length or a character that is no hex digit is an error.
hex_decode(s) ==
    IF Len(s) % 2 # 0 THEN [ok |-> FALSE, bin |-> <<>>]
    ELSE IF \E i \in 1..Len(s) : HexVal(s[i]) < 0 THEN [ok |-> FALSE, bin |-> <<>>]
    ELSE [ok |-> TRUE,
          bin |-> [i \in 1..(Len(s) \div 2) |->
                      16 * HexVal(s[2 * i - 1]) + HexVal(s[2 * i])]]

\* format!("{:x}", n): the hex digits of n, no leading zero.
RECURSIVE LowerHex(_)
LowerHex(n) ==
    IF n < 16 THEN <<HexDigits[n + 1]>>
    ELSE LowerHex(n \div 16) \o <<HexDigits[(n % 16) + 1]>>

\* format!("{:0width$x}", n): zero-padded on the left to at least width.
PadHex(n, width) ==
    LET d == LowerHex(n)
    IN IF Len(d) >= width THEN d ELSE Repeat("0", width - Len(d)) \o d

\* ---------------------------------------------------------------- numbers
Err == [ok |-> FALSE, val |-> 0]
Ok(v) == [ok |-> TRUE, val |-> v]

\* char::to_digit(radix): the digit's value, -1 when it is none of the radix.
ToDigit(c, radix) ==
    LET v == HexVal(c) IN IF v >= 0 /\ v < radix THEN v ELSE -1

RECURSIVE DigitsValue(_, _, _)
DigitsValue(s, radix, acc) ==
    IF s = <<>> THEN acc
    ELSE DigitsValue(Tail(s), radix, acc * radix + ToDigit(Head(s), radix))

\* usize::from_str_radix: an optional "+" and at least one digit of the radix
\* (the texts of the model are too short to overflow a usize).
from_str_radix(s, radix) ==
    LET body == IF Len(s) > 1 /\ s[1] = "+" THEN Tail(s) ELSE s
    IN IF body = <<>> THEN Err
       ELSE IF \E i \in 1..Len(body) : ToDigit(body[i], radix) < 0 THEN Err
       ELSE Ok(DigitsValue(body, radix, 0))

StartsWith0x(s) == Len(s) >= 2 /\ s[1] = "0" /\ s[2] = "x"

\* str::trim_start_matches("0x"): every leading repetition is removed.
RECURSIVE trim_start_matches_0x(_)
trim_start_matches_0x(s) ==
    IF StartsWith0x(s) THEN trim_start_matches_0x(SubSeq(s, 3, Len(s))) ELSE s

\* Result::or_else
OrElse(r, other) == IF r.ok THEN r ELSE other

\* util.rs:1-7  parse_num
parse_num(input) ==
    IF StartsWith0x(input) THEN from_str_radix(SubSeq(input, 3, Len(input)), 16)
    ELSE from_str_radix(input, 10)

\* ------------------------------------------------------------------ state
VARIABLES
    args,              \* main.rs:18-54   Args, as parsed by clap
    fs,                \* the file system: path -> [exists, data]
    pc,                \* where main is: "main", "fwd_loop", "rev_loop", "done"
    exit,              \* how the process ended: [code, err, line]
    stdout,            \* the lines printed to standard output
    short_reads,       \* whether a read may return fewer bytes than it could
    MAX_COUNT,         \* main.rs:71-77   lazy static: [init, some, val]
    trailing_zeroes,   \* main.rs:145
    rpos,              \* the reader's position in the input file
    buffer,            \* main.rs:151
    current_addr,      \* main.rs:153
    total_bytes_read,  \* main.rs:154
    index,             \* main.rs:215     lines of the reverse input consumed
    out_hex,           \* main.rs:213
    range_str,         \* the text given to --byte-range
    range_res,         \* the result of ByteRange::from_str on it
    cls_byte,          \* the byte given to the classifier
    cls_res            \* [color, glyph] of it, once classified

progVars == <<args, fs, pc, exit, stdout, short_reads, MAX_COUNT>>
fwdVars == <<trailing_zeroes, rpos, buffer, current_addr, total_bytes_read>>
revVars == <<index, out_hex>>
rangeVars == <<range_str, range_res>>
clsVars == <<cls_byte, cls_res>>
vars == <<progVars, fwdVars, revVars, rangeVars, clsVars>>

Paths == {"in", "out", "bin"}
NoFile == [exists |-> FALSE, data |-> <<>>]
File(d) == [exists |-> TRUE, data |-> d]

Running == [code |-> -1, err |-> "", line |-> 0]
ExitOk == [code |-> 0, err |-> "", line |-> 0]
ExitErr(code, err, line) == [code |-> code, err |-> err, line |-> line]

\* main.rs:58  USE_COLOR
USE_COLOR == ~args.output.some

\* main.rs:60-63  SPLIT_SYMBOL
SPLIT_SYMBOL ==
    IF USE_COLOR THEN Colorize(<<RAW_SPLIT_SYMBOL>>, "BrightBlack")
    ELSE <<RAW_SPLIT_SYMBOL>>

\* main.rs:64-70  START
START ==
    IF args.byte_range.some THEN args.byte_range.val.start
    ELSE IF args.skip.some THEN args.skip.val
    ELSE 0

\* main.rs:71-77  MAX_COUNT's initialiser.  range.end - range.start is an
\* unchecked usize subtraction: with end < start it wraps (a release build) or
\* panics (a build with overflow checks); MaxCountOverflows is that case and
\* this is the value of every other case and of the wrap.
EvalMaxCount ==
    IF args.byte_range.some
    THEN Some((args.byte_range.val.end - args.byte_range.val.start + UsizeModulus)
                  % UsizeModulus)
    ELSE IF args.length.some THEN Some(args.length.val)
    ELSE None

MaxCountOverflows ==
    args.byte_range.some /\ args.byte_range.val.end < args.byte_range.val.start

\* The value a dereference of MAX_COUNT gives: the cached one, or the
\* initialiser's on the first dereference.
MaxCountNow ==
    IF MAX_COUNT.init THEN [some |-> MAX_COUNT.some, val |-> MAX_COUNT.val]
    ELSE EvalMaxCount

Cached(mc) == [init |-> TRUE, some |-> mc.some, val |-> mc.val]
Uninit == [init |-> FALSE, some |-> FALSE, val |-> 0]

\* ---------------------------------------------------------- line formatter
\* The width with floor in place of ceil.
RECURSIVE FloorLog16(_)
FloorLog16(size) == IF size < 16 THEN 0 ELSE 1 + FloorLog16(size \div 16)

\* main.rs:145  (ifile_size as f64).log(16.0).ceil() as usize: the least w with
\* 16^w >= size; the cast saturates -inf (size 0) to 0.
RECURSIVE CeilLog16From(_, _)
CeilLog16From(size, w) == IF 16^w >= size THEN w ELSE CeilLog16From(size, w + 1)

CeilLog16(size) == IF size = 0 THEN 0 ELSE CeilLog16From(size, 0)

\* main.rs:103-109  addr_line
addr_line(addr, width, use_color) ==
    LET digits == PadHex(addr, width)
        text == <<"0", "x">> \o
                (IF args.uppercase THEN to_uppercase(digits) ELSE digits)
    IN ApplyIf(text, use_color, Colorize(text, "BrightBlack"))

\* hex_line without take(bytes_read): the whole buffer is shown.
hex_line_whole_buffer(buff, bytes_read, use_color) ==
    LET enc == Concat([i \in 1..Len(buff) |-> EncodeByte(buff[i])])
        chunk(i) == SubSeq(enc, 2 * i - 1, 2 * i)
        up(i) == ApplyIf(chunk(i), args.uppercase, to_uppercase(chunk(i)))
        shown(i) == ApplyIf(up(i), use_color, Colorize(up(i), get_color(buff[i])))
    IN Join([i \in 1..Len(buff) |-> shown(i)], <<" ">>)

\* main.rs:111-128  hex_line
hex_line(buff, bytes_read, use_color) ==
    LET enc == Concat([i \in 1..Len(buff) |-> EncodeByte(buff[i])])
        taken == IF bytes_read < Len(buff) THEN bytes_read ELSE Len(buff)
        chunk(i) == SubSeq(enc, 2 * i - 1, 2 * i)
        up(i) == ApplyIf(chunk(i), args.uppercase, to_uppercase(chunk(i)))
        shown(i) == ApplyIf(up(i), use_color, Colorize(up(i), get_color(buff[i])))
    IN Join([i \in 1..taken |-> shown(i)], <<" ">>)

\* main.rs:130-139  ascii_line
ascii_line(buff, bytes_read, use_color) ==
    LET taken == IF bytes_read < Len(buff) THEN bytes_read ELSE Len(buff)
        glyph(i) == <<get_ascii(buff[i])>>
        shown(i) == ApplyIf(glyph(i), use_color,
                            Colorize(glyph(i), get_color(buff[i])))
    IN Concat([i \in 1..taken |-> shown(i)])

\* extra_space with two spaces per missing byte instead of three.
extra_space_two(bytes_read) == Repeat(" ", (args.bytes_per_line - bytes_read) * 2)

\* main.rs:185  extra_space
extra_space(bytes_read) == Repeat(" ", (args.bytes_per_line - bytes_read) * 3)

\* main.rs:181-190  one dump line, without its newline
FormatLine(addr_v, buff, bytes_read) ==
    <<" ">> \o addr_line(addr_v, trailing_zeroes, USE_COLOR) \o <<" ">> \o
    SPLIT_SYMBOL \o <<" ">> \o hex_line(buff, bytes_read, USE_COLOR) \o
    extra_space(bytes_read) \o <<" ">> \o SPLIT_SYMBOL \o <<" ">> \o
    ascii_line(buff, bytes_read, USE_COLOR)

\* ------------------------------------------------------- forward pipeline
InputData == fs[args.input].data
Remaining == IF rpos >= Len(InputData) THEN 0 ELSE Len(InputData) - rpos

\* The sizes reader.read(&mut buffer) may return: 0 at end of file (or into
\* an empty buffer), else any count from 1 to what the buffer and file allow
\* (Read::read may return short), or only the most when reads are never short.
ReadSizes ==
    LET most == IF Remaining < Len(buffer) THEN Remaining ELSE Len(buffer)
    IN IF most = 0 THEN {0} ELSE IF short_reads THEN 1..most ELSE {most}

\* The buffer after a read of n bytes: the bytes beyond n keep what they held.
BufferAfter(n) ==
    [i \in 1..Len(buffer) |-> IF i <= n THEN InputData[rpos + i] ELSE buffer[i]]

\* Effective without the truncation to MAX_COUNT.
EffectiveUntruncated(mc, n) == n

\* main.rs:174-179  the effective byte count of a read of n bytes
Effective(mc, n) ==
    IF mc.some /\ total_bytes_read + n >= mc.val
    THEN mc.val - total_bytes_read
    ELSE n

\* main.rs:191-196  write the line to the output file, or print it
Emit(line) ==
    IF args.output.some
    THEN /\ fs' = [fs EXCEPT ![args.output.val].data = Append(@, line)]
         /\ UNCHANGED stdout
    ELSE /\ stdout' = Append(stdout, line)
         /\ UNCHANGED fs

\* main.rs:142-159  open the input, size it, seek to START, create the output
FwdOpen ==
    /\ pc = "main"
    /\ ~args.reverse
    /\ IF ~fs[args.input].exists
       THEN /\ pc' = "done"
            /\ exit' = ExitErr(1, "NotFound", 0)
            /\ UNCHANGED <<fs, fwdVars>>
       ELSE /\ trailing_zeroes' = CeilLog16(Len(InputData))
            /\ rpos' = START
            /\ buffer' = [i \in 1..args.bytes_per_line |-> 0]
            /\ current_addr' = START
            /\ total_bytes_read' = 0
            /\ IF args.output.some /\ fs[args.output.val].exists
               THEN \* File::create_new fails on an existing path
                    /\ pc' = "done"
                    /\ exit' = ExitErr(1, "OutputExists", 0)
                    /\ UNCHANGED fs
               ELSE /\ pc' = "fwd_loop"
                    /\ exit' = exit
                    /\ fs' = IF args.output.some
                             THEN [fs EXCEPT ![args.output.val] = File(<<>>)]
                             ELSE fs
    /\ UNCHANGED <<args, stdout, short_reads, MAX_COUNT, revVars, rangeVars, clsVars>>

\* main.rs:162-167, 202-206  the read returns 0: end of file, flush, Ok
FwdEof ==
    /\ pc = "fwd_loop"
    /\ 0 \in ReadSizes
    /\ pc' = "done"
    /\ exit' = ExitOk
    /\ UNCHANGED <<args, fs, stdout, short_reads, MAX_COUNT, fwdVars, revVars, rangeVars, clsVars>>

\* main.rs:169 with 72  the first dereference of MAX_COUNT runs its
\* initialiser, whose subtraction overflows: the build with overflow checks
\* panics (exit code 101).
FwdPanic ==
    /\ pc = "fwd_loop"
    /\ ~MAX_COUNT.init
    /\ MaxCountOverflows
    /\ \E n \in ReadSizes \ {0} :
         /\ buffer' = BufferAfter(n)
         /\ rpos' = rpos + n
    /\ pc' = "done"
    /\ exit' = ExitErr(101, "Panic", 0)
    /\ UNCHANGED <<args, fs, stdout, short_reads, MAX_COUNT, trailing_zeroes, current_addr,
                   total_bytes_read, revVars, rangeVars, clsVars>>

\* main.rs:169-172, 202-206  the running total has reached MAX_COUNT
FwdOutOfRange ==
    /\ pc = "fwd_loop"
    /\ \E n \in ReadSizes \ {0} :
         /\ buffer' = BufferAfter(n)
         /\ rpos' = rpos + n
    /\ MaxCountNow.some /\ total_bytes_read >= MaxCountNow.val
    /\ MAX_COUNT' = Cached(MaxCountNow)
    /\ pc' = "done"
    /\ exit' = ExitOk
    /\ UNCHANGED <<args, fs, stdout, short_reads, trailing_zeroes, current_addr,
                   total_bytes_read, revVars, rangeVars, clsVars>>

\* main.rs:162-199  one iteration that emits a line
FwdEmit ==
    /\ pc = "fwd_loop"
    /\ ~(MaxCountNow.some /\ total_bytes_read >= MaxCountNow.val)
    /\ \E n \in ReadSizes \ {0} :
         LET bytes_read == Effective(MaxCountNow, n)
         IN /\ buffer' = BufferAfter(n)
            /\ rpos' = rpos + n
            /\ Emit(FormatLine(current_addr, BufferAfter(n), bytes_read))
            /\ current_addr' = current_addr + bytes_read
            /\ total_bytes_read' = total_bytes_read + bytes_read
    /\ MAX_COUNT' = Cached(MaxCountNow)
    /\ UNCHANGED <<args, pc, exit, short_reads, trailing_zeroes, revVars,
                   rangeVars, clsVars>>

\* ------------------------------------------------------- reverse pipeline
\* The whitespace str::trim removes, among the tokens of the model.
IsWhitespace(tok) == tok = " "

RECURSIVE TrimStart(_)
TrimStart(s) ==
    IF s # <<>> /\ IsWhitespace(Head(s)) THEN TrimStart(Tail(s)) ELSE s

RECURSIVE TrimEnd(_)
TrimEnd(s) ==
    IF s # <<>> /\ IsWhitespace(s[Len(s)])
    THEN TrimEnd(SubSeq(s, 1, Len(s) - 1))
    ELSE s

\* str::trim
trim(s) == TrimEnd(TrimStart(s))

\* str::split(sep).collect(): the pieces between the occurrences of sep, the
\* empty ones included; a text without sep is one piece.
split(s, sep) ==
    LET at == {i \in 1..Len(s) : s[i] = sep}
        n == Cardinality(at)
        pos(k) == CHOOSE p \in at : Cardinality({q \in at : q < p}) = k - 1
        first(k) == IF k = 1 THEN 1 ELSE pos(k - 1) + 1
        last(k) == IF k = n + 1 THEN Len(s) ELSE pos(k) - 1
    IN [k \in 1..(n + 1) |-> SubSeq(s, first(k), last(k))]

\* str::replace(" ", "")
StripSpaces(s) == SelectSeq(s, LAMBDA tok : tok # " ")

\* main.rs:217  the fields of a line
Parts(line) == split(trim(line), RAW_SPLIT_SYMBOL)

\* HexFieldIndex taking the second field of a line of four fields too.
HexFieldIndexLenient(n_parts) ==
    IF n_parts = 1 THEN 1
    ELSE IF n_parts \in {2, 3, 4} THEN 2
    ELSE 0

\* main.rs:219-229  which field holds the hex: 0 when no field does
HexFieldIndex(n_parts) ==
    IF n_parts = 1 THEN 1
    ELSE IF n_parts \in {2, 3} THEN 2
    ELSE 0

\* main.rs:217-242  what one line decodes to: [fmt_ok, ok, bin]
DecodeLine(line) ==
    LET parts == Parts(line)
        k == HexFieldIndex(Len(parts))
    IN IF k = 0 THEN [fmt_ok |-> FALSE, ok |-> FALSE, bin |-> <<>>]
       ELSE LET d == hex_decode(StripSpaces(parts[k]))
            IN [fmt_ok |-> TRUE, ok |-> d.ok, bin |-> d.bin]

InputLines == fs[args.input].data

\* main.rs:210-213  open the input
RevOpen ==
    /\ pc = "main"
    /\ args.reverse
    /\ IF ~fs[args.input].exists
       THEN /\ pc' = "done"
            /\ exit' = ExitErr(1, "NotFound", 0)
       ELSE /\ pc' = "rev_loop"
            /\ exit' = exit
    /\ index' = 0
    /\ out_hex' = <<>>
    /\ UNCHANGED <<args, fs, stdout, short_reads, MAX_COUNT, fwdVars, rangeVars, clsVars>>

\* RevLine writing each line's bytes to the output as it goes.
RevLineStreaming ==
    /\ pc = "rev_loop"
    /\ index < Len(InputLines)
    /\ LET d == DecodeLine(InputLines[index + 1])
       IN /\ d.fmt_ok /\ d.ok
          /\ out_hex' = out_hex \o d.bin
          /\ fs' = [fs EXCEPT ![args.output.val] = File(out_hex \o d.bin)]
    /\ index' = index + 1
    /\ UNCHANGED <<args, pc, exit, stdout, short_reads, MAX_COUNT, fwdVars,
                   rangeVars, clsVars>>

\* main.rs:215-245  a line that decodes: its bytes are appended
RevLine ==
    /\ pc = "rev_loop"
    /\ index < Len(InputLines)
    /\ LET d == DecodeLine(InputLines[index + 1])
       IN /\ d.fmt_ok /\ d.ok
          /\ out_hex' = out_hex \o d.bin
    /\ index' = index + 1
    /\ UNCHANGED <<progVars, fwdVars, rangeVars, clsVars>>

\* main.rs:222-228  a line with no hex field: report its number, exit(1)
RevFormatError ==
    /\ pc = "rev_loop"
    /\ index < Len(InputLines)
    /\ ~DecodeLine(InputLines[index + 1]).fmt_ok
    /\ pc' = "done"
    /\ exit' = ExitErr(1, "UnrecognizedLineFormat", index + 1)
    /\ UNCHANGED <<args, fs, stdout, short_reads, MAX_COUNT, fwdVars, revVars, rangeVars, clsVars>>

\* main.rs:232-242  a hex field that does not decode: report it, exit(1)
RevHexError ==
    /\ pc = "rev_loop"
    /\ index < Len(InputLines)
    /\ LET d == DecodeLine(InputLines[index + 1])
       IN d.fmt_ok /\ ~d.ok
    /\ pc' = "done"
    /\ exit' = ExitErr(1, "InvalidHex", index + 1)
    /\ UNCHANGED <<args, fs, stdout, short_reads, MAX_COUNT, fwdVars, revVars, rangeVars, clsVars>>

\* main.rs:247-253  after the last line: File::create the output (an existing
\* file is truncated), write the bytes, flush
RevWrite ==
    /\ pc = "rev_loop"
    /\ index = Len(InputLines)
    /\ args.output.some
    /\ fs' = [fs EXCEPT ![args.output.val] = File(out_hex)]
    /\ pc' = "done"
    /\ exit' = ExitOk
    /\ UNCHANGED <<args, stdout, short_reads, MAX_COUNT, fwdVars, revVars, rangeVars, clsVars>>

\* ------------------------------------------------------------------ inputs
NoRange == [some |-> FALSE, val |-> [start |-> 0, end |-> 0]]
SomeRange(s, e) == [some |-> TRUE, val |-> [start |-> s, end |-> e]]

Opt(S) == {None} \cup {Some(v) : v \in S}

\* --skip and --length, or --byte-range (clap: conflicts_with_all)
Windows ==
    {[skip |-> sk, length |-> ln, byte_range |-> NoRange] :
        sk \in Opt(0..MaxSkip), ln \in Opt(0..MaxCount)}
    \cup
    {[skip |-> None, length |-> None, byte_range |-> SomeRange(s, e)] :
        s \in 0..MaxSkip, e \in 0..MaxRangeEnd}

WholeFile == [skip |-> None, length |-> None, byte_range |-> NoRange]

\* main.rs:28  the default of --bytes-per-line
DefaultBpl == 16

MkArgs(input, output, bpl, w, reverse, uppercase) ==
    [input |-> input, output |-> output, bytes_per_line |-> bpl,
     skip |-> w.skip, length |-> w.length, byte_range |-> w.byte_range,
     reverse |-> reverse, uppercase |-> uppercase]

\* The binary input files of at most n bytes.
BinaryFiles(n) == SeqsUpTo(ByteSet, n)

\* Reverse-mode input lines: k fields joined by the separator.  The hex field
\* is empty, valid, valid with spaces and both cases, of odd length, or holds a
\* character that is no hex digit; the fields around it may look like hex.
HexFields ==
    { <<>>, <<"4", "1">>, <<" ", "0", "A", " ", "a", "b", " ">>, <<"4">>,
      <<"g", "g">> }
AddrFields == { <<" ", "0", "x", "0", " ">>, <<"0", "a">> }
AsciiField == <<" ", "f", "f">>

MkLine(k, a, h) ==
    IF k = 1 THEN h
    ELSE Join(<<a, h>> \o [i \in 1..(k - 2) |-> AsciiField], <<RAW_SPLIT_SYMBOL>>)

RevLineSet == {MkLine(k, a, h) : k \in 1..MaxFields, a \in AddrFields, h \in HexFields}

\* The reverse-mode input files of at most n lines.
TextFiles(n) == SeqsUpTo(RevLineSet, n)

\* What an output path that already exists holds.
OldText == << <<"o", "l", "d">> >>
OldBin == <<7>>

\* The state main starts in, given the arguments and the files.
Start(a, files, short) ==
    /\ args = a
    /\ fs = files
    /\ short_reads = short
    /\ pc = "main"
    /\ exit = Running
    /\ stdout = <<>>
    /\ MAX_COUNT = Uninit
    /\ trailing_zeroes = 0
    /\ rpos = 0
    /\ buffer = <<>>
    /\ current_addr = 0
    /\ total_bytes_read = 0
    /\ index = 0
    /\ out_hex = <<>>

NoResult == [done |-> FALSE, ok |-> FALSE, start |-> 0, end |-> 0]
NoClass == [done |-> FALSE, color |-> "", glyph |-> ""]

NoProbe ==
    /\ range_str = <<>>
    /\ range_res = NoResult
    /\ cls_byte = 0
    /\ cls_res = NoClass

Files(in, out) == [p \in Paths |-> IF p = "in" THEN in ELSE IF p = "out" THEN out ELSE NoFile]

InitForward ==
    /\ \E data \in BinaryFiles(MaxFileLen), bpl \in 1..MaxBpl, w \in Windows, up \in BOOLEAN,
          o \in {"stdout", "new", "existing"} :
         Start(MkArgs("in", IF o = "stdout" THEN None ELSE Some("out"), bpl, w,
                      FALSE, up),
               Files(File(data), IF o = "existing" THEN File(OldText) ELSE NoFile),
               TRUE)
    /\ NoProbe

InitReverse ==
    /\ \E lines \in TextFiles(MaxLines), existing \in BOOLEAN :
         Start(MkArgs("in", Some("out"), DefaultBpl, WholeFile, TRUE, FALSE),
               Files(File(lines), IF existing THEN File(OldBin) ELSE NoFile),
               TRUE)
    /\ NoProbe

NextForward == FwdOpen \/ FwdEof \/ FwdPanic \/ FwdOutOfRange \/ FwdEmit
SpecForward == InitForward /\ [][NextForward]_vars

NextReverse == RevOpen \/ RevLine \/ RevFormatError \/ RevHexError \/ RevWrite
SpecReverse == InitReverse /\ [][NextReverse]_vars

\* main.rs:256-263  main, in either direction
Init == InitForward \/ InitReverse
Next ==
    \/ FwdOpen \/ FwdEof \/ FwdPanic \/ FwdOutOfRange \/ FwdEmit
    \/ RevOpen \/ RevLine \/ RevFormatError \/ RevHexError \/ RevWrite
Spec == Init /\ [][Next]_vars

\* ---------------------------------------------------------- observations
\* What a terminal shows of a line: the escape sequences take no column.
Visible(line) == SelectSeq(line, LAMBDA tok : tok \notin EscTokens)

\* The forward pipeline opened its files and entered the loop.
FwdRan ==
    /\ ~args.reverse
    /\ pc \in {"fwd_loop", "done"}
    /\ exit.err \notin {"NotFound", "OutputExists"}

\* The dump lines the forward pipeline has emitted so far.
OutLines ==
    IF ~FwdRan THEN <<>>
    ELSE IF args.output.some THEN fs[args.output.val].data
    ELSE stdout

LineFields(line) == split(Visible(line), RAW_SPLIT_SYMBOL)

\* The bytes a dump line shows in its hex field.
LineBytes(line) ==
    LET f == LineFields(line)
    IN IF Len(f) < 2 THEN <<>> ELSE hex_decode(StripSpaces(f[2])).bin

EmittedBytes == Concat([i \in 1..Len(OutLines) |-> LineBytes(OutLines[i])])

\* The bytes of s at offsets [lo, hi).
Slice(s, lo, hi) == [i \in 1..(hi - lo) |-> s[lo + i]]

\* The column of the n-th separator of a line, 0 when it has none.
RECURSIVE SepColumnFrom(_, _, _)
SepColumnFrom(line, n, col) ==
    IF col > Len(line) THEN 0
    ELSE IF line[col] = RAW_SPLIT_SYMBOL
    THEN (IF n = 1 THEN col ELSE SepColumnFrom(line, n - 1, col + 1))
    ELSE SepColumnFrom(line, n, col + 1)

SepColumn(line, n) == SepColumnFrom(Visible(line), n, 1)

\* ------------------------------------------------------------------ claims
\* The end of the window: min(file_size, start + max_count), file_size when
\* max_count is unset.
WindowEnd ==
    LET size == Len(InputData)
        e == IF EvalMaxCount.some THEN START + EvalMaxCount.val ELSE size
    IN IF e < size THEN e ELSE size

\* C2: the bytes emitted across all lines, in order, are the file bytes at
\* offsets [start, start + total_bytes_read), the total never passes max_count
\* nor the end of the file, and when the run ends they are exactly the bytes
\* at [start, min(file_size, start + max_count)).
C2_WindowClipping ==
    FwdRan =>
        /\ total_bytes_read = 0 \/ START + total_bytes_read <= WindowEnd
        /\ EmittedBytes = Slice(InputData, START, START + total_bytes_read)
        /\ (pc = "done" /\ exit = ExitOk) =>
               EmittedBytes = Slice(InputData, START, WindowEnd)

\* C2's case: a read of two bytes was cut to one to reach max_count exactly,
\* with more of the file left.
C2_Witness ==
    /\ FwdRan
    /\ pc = "fwd_loop"
    /\ EvalMaxCount.some
    /\ total_bytes_read = EvalMaxCount.val
    /\ total_bytes_read > 0
    /\ rpos > START + total_bytes_read
    /\ Len(OutLines) >= 1

\* A full chunk's line, for the width of its hex field.
FullLine == FormatLine(0, [i \in 1..args.bytes_per_line |-> 0], args.bytes_per_line)

\* C8: on every emitted line the hex field with its padding is as wide as the
\* hex field of a full chunk, and the second separator is at the same column on
\* every line of the run.
C8_PaddingInvariant ==
    FwdRan =>
        \A i \in 1..Len(OutLines) :
            /\ Len(LineFields(OutLines[i])) = 3
            /\ Len(LineBytes(OutLines[i])) \in 1..args.bytes_per_line
            /\ Len(LineFields(OutLines[i])[2]) = Len(LineFields(FullLine)[2])
            /\ \A j \in 1..Len(OutLines) :
                   SepColumn(OutLines[i], 2) = SepColumn(OutLines[j], 2)

\* C8's case: a full line of two bytes followed by a short line of one.
C8_Witness ==
    /\ FwdRan
    /\ args.bytes_per_line = 2
    /\ Len(OutLines) = 2
    /\ Len(LineBytes(OutLines[1])) = 2
    /\ Len(LineBytes(OutLines[2])) = 1

\* C3: with a byte range whose end is below its start, the run emits no dump
\* line and ends with InvalidRange (unless a file error ended it first).
C3_InvertedRangeRejected ==
    (~args.reverse /\ MaxCountOverflows) =>
        /\ OutLines = <<>>
        /\ (pc = "done" /\ exit.err \notin {"NotFound", "OutputExists"}) =>
               exit.err = "InvalidRange"

\* C5: an output path that exists when the run starts is left as it is, and
\* the run fails.  (Before the forward pipeline leaves "main" and before the
\* reverse pipeline leaves "rev_loop" the program has created no file.)
C5_CreateOnly ==
    [][(/\ args.output.some
        /\ pc \in {"main", "rev_loop"}
        /\ fs[args.output.val].exists)
       => /\ fs'[args.output.val] = fs[args.output.val]
          /\ pc' = "done" => exit'.code > 0]_vars

\* The number of separator-delimited fields of a line: its separators, plus one.
FieldCount(line) ==
    Len(SelectSeq(line, LAMBDA tok : tok = RAW_SPLIT_SYMBOL)) + 1

\* The text of a line between its first separator and its second (or its end).
SecondField(line) ==
    LET a == SepColumnFrom(line, 1, 1)
        b == SepColumnFrom(line, 2, 1)
    IN SubSeq(line, a + 1, IF b = 0 THEN Len(line) ELSE b - 1)

\* The bytes the field-count rule gives for a line with 1, 2 or 3 fields.
RuleBytes(line) ==
    hex_decode(StripSpaces(IF FieldCount(line) = 1 THEN line ELSE SecondField(line))).bin

RevRan == args.reverse /\ pc \in {"rev_loop", "done"} /\ exit.err # "NotFound"

\* C7: the lines before the current one each had 1, 2 or 3 fields and gave the
\* bytes of the whole line (1 field) or of the second field (2 or 3), in file
\* order; a run stopped at a line with another number of fields ended with a
\* format error that reports that line's 1-based index, and a format error is
\* reported for no other line.
C7_FieldCountRule ==
    RevRan =>
        /\ index <= Len(InputLines)
        /\ \A i \in 1..index : FieldCount(InputLines[i]) \in 1..3
        /\ out_hex = Concat([i \in 1..index |-> RuleBytes(InputLines[i])])
        /\ (/\ pc = "done"
            /\ index < Len(InputLines)
            /\ FieldCount(InputLines[index + 1]) \notin 1..3)
           => exit = ExitErr(1, "UnrecognizedLineFormat", index + 1)
        /\ exit.err = "UnrecognizedLineFormat"
           => /\ exit.line = index + 1
              /\ exit.line <= Len(InputLines)
              /\ FieldCount(InputLines[exit.line]) \notin 1..3

\* C7's case: a first line of three fields was decoded, the second line has
\* four fields and ended the run.
C7_Witness ==
    /\ RevRan
    /\ pc = "done"
    /\ exit = ExitErr(1, "UnrecognizedLineFormat", 2)
    /\ FieldCount(InputLines[1]) = 3
    /\ FieldCount(InputLines[2]) = 4
    /\ out_hex = <<65>>

\* C10: the reverse pipeline changes the output path only in a step taken
\* after every input line has been split and decoded, and that step ends the
\* run with success; a run that fails leaves the path as it was.
C10_ReverseWritesNothingOnFailure ==
    [][(args.reverse /\ fs' # fs)
       => /\ index = Len(InputLines)
          /\ \A i \in 1..Len(InputLines) :
                 DecodeLine(InputLines[i]).fmt_ok /\ DecodeLine(InputLines[i]).ok
          /\ pc' = "done"
          /\ exit' = ExitOk]_vars

\* C10's case: a first line gave bytes, the second line does not decode, and
\* the output path does not exist.
C10_Witness ==
    /\ RevRan
    /\ pc = "done"
    /\ exit = ExitErr(1, "InvalidHex", 2)
    /\ out_hex # <<>>
    /\ ~fs[args.output.val].exists

\* ------------------------------------------------------------ round trip
\* The user runs the program again, in reverse, on the dump the forward run
\* wrote: hex-thing -r out -o bin.
RunReverse ==
    /\ pc = "done"
    /\ ~args.reverse
    /\ exit = ExitOk
    /\ args.output.some
    /\ args' = MkArgs(args.output.val, Some("bin"), args.bytes_per_line, WholeFile,
                      TRUE, args.uppercase)
    /\ pc' = "main"
    /\ exit' = Running
    /\ MAX_COUNT' = Uninit
    /\ trailing_zeroes' = 0
    /\ rpos' = 0
    /\ buffer' = <<>>
    /\ current_addr' = 0
    /\ total_bytes_read' = 0
    /\ UNCHANGED <<fs, stdout, short_reads, revVars, rangeVars, clsVars>>

InitRoundTrip ==
    /\ \E data \in BinaryFiles(MaxFileLen), bpl \in 1..MaxBpl, up \in BOOLEAN :
         Start(MkArgs("in", Some("out"), bpl, WholeFile, FALSE, up),
               Files(File(data), NoFile), TRUE)
    /\ NoProbe

NextRoundTrip ==
    \/ FwdOpen \/ FwdEof \/ FwdEmit
    \/ RunReverse
    \/ RevOpen \/ RevLine \/ RevWrite

SpecRoundTrip == InitRoundTrip /\ [][NextRoundTrip]_vars

\* C1: a plain forward dump of the whole file ends with success, every line of
\* it has a hex field the reverse pipeline decodes, and the reverse run ends
\* with success having written exactly the bytes of the original file.
C1_RoundTrip ==
    /\ (~args.reverse /\ pc = "fwd_loop") =>
           ~(MaxCountNow.some /\ total_bytes_read >= MaxCountNow.val)
    /\ (~args.reverse /\ pc = "done") => exit = ExitOk
    /\ (args.reverse /\ pc = "rev_loop" /\ index < Len(InputLines)) =>
           /\ DecodeLine(InputLines[index + 1]).fmt_ok
           /\ DecodeLine(InputLines[index + 1]).ok
    /\ (args.reverse /\ pc = "done") =>
           /\ exit = ExitOk
           /\ fs["bin"] = File(fs["in"].data)

\* C1's case: three bytes dumped in uppercase on two lines, the second short,
\* and reversed.
C1_Witness ==
    /\ args.reverse
    /\ pc = "done"
    /\ args.uppercase
    /\ Len(fs["in"].data) = 3
    /\ Len(fs["out"].data) = 2
    /\ fs["bin"].exists
    /\ fs["bin"].data = fs["in"].data

\* ---------------------------------------------------------- address field
\* File sizes around the powers of 16, dumped whole in full chunks of 16 bytes
\* (main.rs:28, the default of --bytes-per-line).
AddrSizes == {15, 16, 17, 255, 256, 257, 4095, 4096, 4097}

InitBigFile ==
    /\ \E size \in AddrSizes, up \in BOOLEAN :
         Start(MkArgs("in", Some("out"), DefaultBpl, WholeFile, FALSE, up),
               Files(File([i \in 1..size |-> 65]), NoFile), FALSE)
    /\ NoProbe

InitAddr == InitForward \/ InitBigFile
SpecAddr == InitAddr /\ [][NextForward]_vars

\* The hex digits an emitted line shows after "0x" in its address field,
\* <<>> when the field is not "0x" and digits.
AddrDigits(line) ==
    LET f == trim(LineFields(line)[1])
    IN IF StartsWith0x(f) THEN SubSeq(f, 3, Len(f)) ELSE <<>>

\* The number the digits denote, -1 when they are no hex number.
AddrValue(digits) ==
    IF digits = <<>> \/ \E i \in 1..Len(digits) : HexVal(digits[i]) < 0 THEN -1
    ELSE DigitsValue(digits, 16, 0)

\* C9: the address width is ceil(log16(file_size)) of the whole file (0 for a
\* file of at most one byte, 2 for 256 bytes, 3 for 4096 bytes); the line just
\* emitted shows the file offset of its first byte, start plus the bytes
\* emitted on the lines before it, in exactly width digits (one digit when the
\* width is 0).  Every line of a run is the line just emitted in some state.
C9_AddressField ==
    FwdRan =>
        LET size == Len(InputData)
            w == trailing_zeroes
        IN /\ size <= 1 => w = 0
           /\ size > 1 => (w >= 1 /\ 16^(w - 1) < size /\ size <= 16^w)
           /\ size = 256 => w = 2
           /\ size = 4096 => w = 3
           /\ OutLines # <<>> =>
                LET line == OutLines[Len(OutLines)]
                    digits == AddrDigits(line)
                IN /\ AddrValue(digits) =
                          START + total_bytes_read - Len(LineBytes(line))
                   /\ AddrValue(digits) < size
                   /\ Len(digits) = IF w = 0 THEN 1 ELSE w
                   /\ size <= 17 => total_bytes_read = Len(EmittedBytes)

\* C9's case: the last line of a 256-byte file, at address 0xf0 in two digits.
C9_Witness ==
    /\ FwdRan
    /\ Len(InputData) = 256
    /\ trailing_zeroes = 2
    /\ Len(OutLines) = 16
    /\ AddrDigits(OutLines[16]) = <<"f", "0">>

\* ------------------------------------------------------------- classifier
InitClassify ==
    /\ Start(MkArgs("in", None, DefaultBpl, WholeFile, FALSE, FALSE),
             Files(File(<<>>), NoFile), TRUE)
    /\ range_str = <<>>
    /\ range_res = NoResult
    /\ cls_byte \in 0..255
    /\ cls_res = NoClass

\* main.rs:123, 134-135  a byte's hex digits are coloured by get_color and its
\* glyph is chosen by get_ascii
Classify ==
    /\ ~cls_res.done
    /\ cls_res' = [done |-> TRUE, color |-> get_color(cls_byte),
                   glyph |-> get_ascii(cls_byte)]
    /\ UNCHANGED <<progVars, fwdVars, revVars, rangeVars, cls_byte>>

NextClassify == Classify
SpecClassify == InitClassify /\ [][NextClassify]_vars

\* The table of the five categories.
TableCategory(b) ==
    IF b = 0 THEN "Zero"
    ELSE IF b \in {9, 10, 13, 32} THEN "Whitespace"
    ELSE IF b >= 33 /\ b <= 126 THEN "Printable"
    ELSE IF b >= 128 /\ b <= 255 THEN "HighByte"
    ELSE "OtherControl"

ColorCategory(color) ==
    CASE color = "BrightBlack" -> "Zero"
      [] color = "Cyan" -> "Whitespace"
      [] color = "Green" -> "Printable"
      [] color = "Yellow" -> "HighByte"
      [] color = "BrightRed" -> "OtherControl"
      [] OTHER -> "none"

GlyphCategory(glyph) ==
    IF glyph = "U+2022" THEN "Zero"
    ELSE IF glyph \in {"U+21E5", "U+240A", "U+240D", "U+2423"} THEN "Whitespace"
    ELSE IF glyph = "U+00D7" THEN "HighByte"
    ELSE IF glyph = "U+25B4" THEN "OtherControl"
    ELSE IF \E i \in 1..Len(AsciiChars) : AsciiChars[i] = glyph THEN "Printable"
    ELSE "none"

\* C6: for every byte the colour and the glyph are of the category the table
\* gives the byte, and the glyph of a printable byte is its ASCII character.
C6_Classification ==
    cls_res.done =>
        /\ ColorCategory(cls_res.color) = TableCategory(cls_byte)
        /\ GlyphCategory(cls_res.glyph) = TableCategory(cls_byte)
        /\ TableCategory(cls_byte) = "Printable" =>
               cls_res.glyph = AsciiChars[cls_byte - 32]

\* C6's case: byte 32, which both the whitespace arm and the 32..=126 arm match.
C6_Witness ==
    /\ cls_res.done
    /\ cls_byte = 32
    /\ cls_res.color = "Cyan"
    /\ cls_res.glyph = "U+2423"

\* ----------------------------------------------------------- range literal
\* byte_range.rs:12-29  ByteRange::from_str
ByteRange_from_str(s) ==
    LET parts == split(s, "-")
    IN IF Len(parts) # 2 THEN NoResult
       ELSE LET start == OrElse(from_str_radix(trim_start_matches_0x(parts[1]), 16),
                                from_str_radix(parts[1], 10))
                end == OrElse(from_str_radix(trim_start_matches_0x(parts[2]), 16),
                              from_str_radix(parts[2], 10))
            IN IF start.ok /\ end.ok
               THEN [done |-> FALSE, ok |-> TRUE, start |-> start.val, end |-> end.val]
               ELSE NoResult

\* Range literals: up to MaxPrefix "0x" prefixes, then up to MaxBody characters.
BodyChars == {"0", "1", "2", "f", "x"}
Prefixed(k, body) == Concat([i \in 1..k |-> <<"0", "x">>]) \o body
Literals(n_prefix, n_body) ==
    {Prefixed(k, b) : k \in 0..n_prefix, b \in SeqsUpTo(BodyChars, n_body)}

\* The texts given to --byte-range: the literals a and b joined by "-" (two
\* parts), a alone (one part), or followed by one more part (three parts).
RangeString(a, b, n_parts) ==
    IF n_parts = 1 THEN a
    ELSE IF n_parts = 2 THEN a \o <<"-">> \o b
    ELSE a \o <<"-">> \o b \o <<"-", "1">>

InitRange ==
    /\ Start(MkArgs("in", None, DefaultBpl, WholeFile, FALSE, FALSE),
             Files(File(<<>>), NoFile), TRUE)
    /\ \E a \in Literals(MaxPrefix, MaxBody), b \in Literals(MaxPrefix, MaxBody),
          n_parts \in 1..3 :
         /\ n_parts # 2 => b \in {<<>>, <<"1">>}
         /\ range_str = RangeString(a, b, n_parts)
    /\ range_res = NoResult
    /\ cls_byte = 0
    /\ cls_res = NoClass

\* main.rs:45, 57  clap parses the --byte-range text with ByteRange::from_str
ParseByteRange ==
    /\ ~range_res.done
    /\ range_res' = [ByteRange_from_str(range_str) EXCEPT !.done = TRUE]
    /\ UNCHANGED <<progVars, fwdVars, revVars, range_str, clsVars>>

NextRange == ParseByteRange
SpecRange == InitRange /\ [][NextRange]_vars

\* C4: in "A-B" each of A and B is read as hexadecimal when it carries one
\* "0x" prefix and as decimal when it carries none, and the range is rejected
\* when either is neither.
C4_RangeLiterals ==
    (range_res.done /\ Len(split(range_str, "-")) = 2) =>
        LET a == parse_num(split(range_str, "-")[1])
            b == parse_num(split(range_str, "-")[2])
        IN /\ range_res.ok <=> (a.ok /\ b.ok)
           /\ range_res.ok => (range_res.start = a.val /\ range_res.end = b.val)

====
